---- MODULE Spec2Model ----
(***************************************************************************)
(* A model of podcast_ads: the timestamp codec (utils.py), the keep-list   *)
(* sweep and media cut (processor.py), the chunked transcript analysis     *)
(* (ai_engine.py) and the per-item output pipeline (main.py).              *)
(*                                                                         *)
(* Times are whole seconds.  A timestamp value as found in a remove-list   *)
(* entry is a tagged record: a number, a string (given by its              *)
(* colon-delimited fields), None, or "missing" when the key is absent.     *)
(***************************************************************************)
EXTENDS Integers, Sequences, FiniteSets, TLC

(***************************************************************************)
(* Bounds of the model.                                                    *)
(***************************************************************************)
\* longest remove list handed to the cut
MaxSegs == 2

\* the instants a numeric start/end of a remove segment is drawn from
TimePoints == {0, 10, 15, 20, 30, 100}

\* total durations reported by the probe
Durations == {30, 100}

\* the same for cuts of long files with segments of more than five minutes
LongTimePoints == {0, 5, 400, 500}
LongDurations == {400, 500}

(***************************************************************************)
(* Timestamp values.                                                       *)
(***************************************************************************)
\* one colon-delimited field of a string: a number, or text float() rejects
NumField(n) == [numeric |-> TRUE, n |-> n]
TextField == [numeric |-> FALSE, n |-> 0]

Num(n) == [tag |-> "num", n |-> n, fields |-> <<>>]
Str(fs) == [tag |-> "str", n |-> 0, fields |-> fs]
None == [tag |-> "none", n |-> 0, fields |-> <<>>]
Missing == [tag |-> "missing", n |-> 0, fields |-> <<>>]
\* the empty (or all-blank) string: split(':') gives one empty field
EmptyStr == [tag |-> "emptystr", n |-> 0, fields |-> <<>>]

Ok(n) == [ok |-> TRUE, v |-> n]
Raise == [ok |-> FALSE, v |-> 0]

\* parse_timestamp reading two fields as hours and minutes
parse_timestamp_hm(x) ==
    CASE x.tag = "none" -> Ok(0)
      [] x.tag = "num" -> Ok(x.n)
      [] x.tag = "emptystr" -> Ok(0)
      [] x.tag = "str" ->
            IF \E i \in 1..Len(x.fields) : ~x.fields[i].numeric THEN Raise
            ELSE IF Len(x.fields) = 3
                 THEN Ok(x.fields[1].n * 3600 + x.fields[2].n * 60 + x.fields[3].n)
            ELSE IF Len(x.fields) = 2
                 THEN Ok(x.fields[1].n * 3600 + x.fields[2].n * 60)
            ELSE IF Len(x.fields) = 1
                 THEN Ok(x.fields[1].n)
            ELSE Raise
      [] OTHER -> Raise

\* utils.parse_timestamp
parse_timestamp(x) ==
    CASE x.tag = "none" -> Ok(0)
      [] x.tag = "num" -> Ok(x.n)
      [] x.tag = "emptystr" -> Ok(0)
      [] x.tag = "str" ->
            IF \E i \in 1..Len(x.fields) : ~x.fields[i].numeric THEN Raise
            ELSE IF Len(x.fields) = 3
                 THEN Ok(x.fields[1].n * 3600 + x.fields[2].n * 60 + x.fields[3].n)
            ELSE IF Len(x.fields) = 2
                 THEN Ok(x.fields[1].n * 60 + x.fields[2].n)
            ELSE IF Len(x.fields) = 1
                 THEN Ok(x.fields[1].n)
            ELSE Raise
      [] OTHER -> Raise

\* the numbers of the conversions below are counted in quarters of a
\* millisecond: Scale units are one second
Scale == 4 * 1000

\* the seconds field printed with three decimals: s units rounded to whole
\* milliseconds; a value halfway between two milliseconds goes the way
\* its binary representation falls
RoundMs(s, tie_up) ==
    LET per_ms == Scale \div 1000
        q == s \div per_ms
        r == s % per_ms
    IN IF 2 * r > per_ms \/ (2 * r = per_ms /\ tie_up) THEN (q + 1) * per_ms
       ELSE q * per_ms

\* seconds_to_timestamp printing 00.000 for a seconds part that rounds up
\* to a whole minute
seconds_to_timestamp_wrapping(seconds, tie_up) ==
    LET m1 == seconds \div (60 * Scale)
        s == seconds % (60 * Scale)
        h == m1 \div 60
        m == m1 % 60
    IN Str(<<NumField(h * Scale), NumField(m * Scale),
             NumField(RoundMs(s, tie_up) % (60 * Scale))>>)

\* utils.seconds_to_timestamp: "HH:MM:SS.mmm", the fields as numbers
seconds_to_timestamp(seconds, tie_up) ==
    LET m1 == seconds \div (60 * Scale)
        s == seconds % (60 * Scale)
        h == m1 \div 60
        m == m1 % 60
    IN Str(<<NumField(h * Scale), NumField(m * Scale), NumField(RoundMs(s, tie_up))>>)

\* seg['start'] / seg['end'] followed by parse_timestamp: a KeyError or a
\* ValueError both leave the caller by an exception
ParseKey(v) == IF v.tag = "missing" THEN Raise ELSE parse_timestamp(v)

\* a remove-list entry
Seg(t, s, e) == [type |-> t, start |-> s, end |-> e]

(***************************************************************************)
(* processor.AudioProcessor.cut_and_merge                                  *)
(***************************************************************************)
StartOf(seg) == ParseKey(seg.start).v
EndOf(seg) == ParseKey(seg.end).v

RECURSIVE InsertByStart(_, _)
\* insert seg behind every element whose key is <= its own (stable)
InsertByStart(sorted, seg) ==
    IF sorted = <<>> THEN <<seg>>
    ELSE IF StartOf(sorted[Len(sorted)]) <= StartOf(seg)
         THEN Append(sorted, seg)
         ELSE Append(InsertByStart(SubSeq(sorted, 1, Len(sorted) - 1), seg),
                     sorted[Len(sorted)])

\* the sweep run over the list in the order it was given, without the sort
InputOrder(segs) == segs

RECURSIVE SortByStart(_)
\* remove_segments.sort(key=lambda x: parse_timestamp(x['start']))
SortByStart(segs) ==
    IF segs = <<>> THEN <<>>
    ELSE InsertByStart(SortByStart(SubSeq(segs, 1, Len(segs) - 1)), segs[Len(segs)])

Min(a, b) == IF a <= b THEN a ELSE b
Max(a, b) == IF a >= b THEN a ELSE b

\* mutant: the "Start >= End" check is missing
SkippedOutsideOnly(seg, D) == StartOf(seg) >= D

\* the sanity checks of the loop body: TRUE when the segment is skipped
Skipped(seg, D) == StartOf(seg) >= EndOf(seg) \/ StartOf(seg) >= D

\* "Clamp end time"
ClampEnd(e, D) == Min(e, D)

\* mutant: naive subtraction, the cursor jumps to the segment's end
AdvanceNoMax(cur, e) == e

\* current_time = max(current_time, end_remove)
Advance(cur, e) == Max(cur, e)

RECURSIVE SweepFrom(_, _, _, _, _)
\* the for loop: i is the index of the next segment, cur is current_time
SweepFrom(sorted, D, i, cur, keep) ==
    IF i > Len(sorted)
    THEN [cur |-> cur, keep |-> keep]
    ELSE LET seg == sorted[i]
             s == StartOf(seg)
             e == ClampEnd(EndOf(seg), D)
         IN IF Skipped(seg, D)
            THEN SweepFrom(sorted, D, i + 1, cur, keep)
            ELSE SweepFrom(sorted, D, i + 1, Advance(cur, e),
                           IF s > cur THEN Append(keep, <<cur, s>>) ELSE keep)

\* mutant: the final segment is appended unconditionally
FinalAlways(sw, D) == Append(sw.keep, <<sw.cur, D>>)

\* "Add final segment if there's audio left"
FinalKeep(sw, D) == IF sw.cur < D THEN Append(sw.keep, <<sw.cur, D>>) ELSE sw.keep

\* the keep list of lines 185-212
KeepList(segs, D) == FinalKeep(SweepFrom(SortByStart(segs), D, 1, 0, <<>>), D)

\* some x['start'] or seg['end'] raises KeyError or ValueError
CutRaises(segs) ==
    \E i \in 1..Len(segs) : ~ParseKey(segs[i].start).ok \/ ~ParseKey(segs[i].end).ok

(***************************************************************************)
(* State.                                                                  *)
(***************************************************************************)
VARIABLES
    pc,                  \* position in _process_single_item_logic
    flags,               \* the action flags of the command line
    segments_to_remove,  \* main.py's remove list (sorted in place by the cut)
    total_duration,      \* what get_duration reports for the media file
    keep_segments,       \* cut_and_merge's keep list, <<>> before it is built
    cut_result,          \* how cut_and_merge ended
    item_status,         \* what the batch loop records for the item
    raised_in,           \* the output step an exception left the item from
    lua_skips,           \* the (start, stop) pairs of the skip script
    clean_transcript,    \* the lines written to the clean transcript
    clean_subs,          \* the cues written to the clean subtitles
    cache,               \* the persisted analysis record of the item
    joined,              \* the output timeline of the trims handed to ffmpeg
    whisper_segments,    \* the transcript analyze_transcript reads
    an_pc,               \* position in analyze_transcript
    start_time,          \* the windowing loop's window start
    chunks,              \* the non-empty chunks built so far
    chunk_i,             \* the chunk the detector is being asked about (from 1)
    attempt,             \* _call_gemini_chunk's loop variable
    current_model_idx,   \* AIEngine.current_model_idx
    model_name,          \* AIEngine.model_name, the model self.model calls
    or_client,           \* whether an OpenRouter client is configured
    all_remove_segments, \* the accumulated remove list
    chunk_starts,        \* history: the window start of each chunk
    segment_chunk,       \* history: the chunk each accumulated entry came from
    window_starts,       \* history: every window start the loop went through
    chunk_outcomes,      \* history: how the detector call of each chunk ended
    last_response,       \* history: the response text the latest call ended with
    calls,               \* history: the provider calls of the latest chunk
    time_pos,            \* the player's time-pos property
    osd_message,         \* the message the player shows on screen
    codec_pc,            \* position of a timestamp conversion
    codec_x,             \* the seconds handed to seconds_to_timestamp
    codec_ts,            \* the value handed to parse_timestamp
    codec_out,           \* what parse_timestamp returned or raised
    files_to_process,    \* the items the batch loop goes through
    item_idx,            \* how many of them the loop has started
    success_count,       \* process()'s success_count
    fail_count,          \* process()'s fail_count
    attempted            \* history: the items started, and how each ended

itemVars == <<pc, flags, segments_to_remove, total_duration, keep_segments,
              cut_result, item_status, raised_in, lua_skips, clean_transcript,
              clean_subs, cache, joined>>

anVars == <<whisper_segments, an_pc, start_time, chunks, chunk_i, attempt,
            current_model_idx, model_name, or_client, all_remove_segments,
            chunk_starts, segment_chunk, window_starts, chunk_outcomes,
            last_response, calls>>

playVars == <<time_pos, osd_message>>

codecVars == <<codec_pc, codec_x, codec_ts, codec_out>>

batchVars == <<files_to_process, item_idx, success_count, fail_count, attempted>>

vars == <<itemVars, anVars, playVars, codecVars, batchVars>>

\* AIEngine.__init__
models_to_try == <<"gemini-pro-latest", "gemini-2.5-flash">>

\* no provider has been called for the chunk
NoCalls == [gemini |-> 0, openrouter |-> 0]

\* no analysis is running
AnalysisIdle ==
    /\ whisper_segments = <<>>
    /\ an_pc = "idle"
    /\ start_time = 0
    /\ chunks = <<>>
    /\ chunk_i = 0
    /\ attempt = 0
    /\ current_model_idx = 0
    /\ model_name = models_to_try[1]
    /\ or_client = FALSE
    /\ all_remove_segments = <<>>
    /\ chunk_starts = <<>>
    /\ segment_chunk = <<>>
    /\ window_starts = <<>>
    /\ chunk_outcomes = <<>>
    /\ last_response = [shape |-> "none", segs |-> <<>>]
    /\ calls = NoCalls

\* no cache file of the item exists
NoCache == [kind |-> "absent", schema_version |-> "none", segs |-> <<>>]

\* time-pos is unavailable (nil)
NoPos == -1

\* no player is running
PlayerIdle == time_pos = NoPos /\ osd_message = ""

\* no timestamp is being converted
CodecIdle ==
    /\ codec_pc = "idle"
    /\ codec_x = 0
    /\ codec_ts = None
    /\ codec_out = Ok(0)

\* no batch is running
BatchIdle ==
    /\ files_to_process = <<>>
    /\ item_idx = 0
    /\ success_count = 0
    /\ fail_count = 0
    /\ attempted = <<>>

(***************************************************************************)
(* cut_and_merge as called from the save-clean branch.                     *)
(***************************************************************************)
\* the outcome of cut_and_merge(input, output, segs); ffmpeg_ok is whether
\* the trim/concat run succeeds
CutAndMerge(segs, D, ffmpeg_ok) ==
    IF segs = <<>>
    THEN [result |-> "skipped", keep |-> <<>>, segs |-> segs]
    ELSE IF CutRaises(segs)
    THEN [result |-> "raised", keep |-> <<>>, segs |-> segs]
    ELSE LET keep == KeepList(segs, D) IN
         IF keep = <<>>
         THEN [result |-> "no_keep", keep |-> keep, segs |-> SortByStart(segs)]
         ELSE IF ffmpeg_ok
         THEN [result |-> "written", keep |-> keep, segs |-> SortByStart(segs)]
         ELSE [result |-> "ffmpeg_error", keep |-> keep, segs |-> SortByStart(segs)]

CutFailed(result) == result \in {"raised", "ffmpeg_error"}

\* filter('atrim', start, end): the samples of [start, end) of the input,
\* with the timestamps they have in the input
Trim(start, end) == [src |-> <<start, end>>, first |-> start, last |-> end]

\* a trim left with the time base of the input
KeepPts(stream) == stream

\* filter('asetpts', 'PTS-STARTPTS'): the time base is moved to zero
SetPts(stream) ==
    [src |-> stream.src, first |-> 0, last |-> stream.last - stream.first]

\* lines 223-227: one trim per keep-span, in keep-list order
Streams(keep) == [k \in 1..Len(keep) |-> SetPts(Trim(keep[k][1], keep[k][2]))]

RECURSIVE Concat(_)
\* ffmpeg.concat(*streams): each stream is shifted by the end of the
\* streams before it; the result is where each source span lands in the
\* output
Concat(streams) ==
    IF streams = <<>> THEN <<>>
    ELSE LET before == Concat(SubSeq(streams, 1, Len(streams) - 1))
             offset == IF before = <<>> THEN 0 ELSE before[Len(before)].out_end
             s == streams[Len(streams)]
         IN Append(before, [src |-> s.src, out_start |-> offset + s.first,
                            out_end |-> offset + s.last])

\* float(x) as the skip script and the text filter apply it to an entry's
\* start or end
FloatOf(v) ==
    CASE v.tag = "num" -> Ok(v.n)
      [] v.tag = "str" ->
            IF Len(v.fields) = 1 /\ v.fields[1].numeric THEN Ok(v.fields[1].n) ELSE Raise
      [] OTHER -> Raise

\* seg.get(key) is None
IsNone(v) == v.tag \in {"none", "missing"}

\* the output steps still to run after `stage`, by the action flags
StepAfter(stage) ==
    IF stage = "lua" /\ flags.stop_early THEN "done"
    ELSE IF stage = "lua" /\ flags.save_clean THEN "cut"
    ELSE IF stage \in {"lua", "cut"} /\ flags.save_transcript THEN "transcript"
    ELSE IF stage \in {"lua", "cut", "transcript"} /\ flags.save_subs THEN "subs"
    ELSE "done"

\* the step ran to its end: the function goes on, or returns to the batch
\* loop, which counts a success (main.py 298)
GoOn(stage) ==
    /\ pc' = StepAfter(stage)
    /\ item_status' = IF StepAfter(stage) = "done" THEN "success" ELSE item_status
    /\ raised_in' = raised_in

\* an exception leaves _process_single_item_logic: the batch loop counts a
\* failure (main.py 299-304)
Fail(stage) ==
    /\ pc' = "done"
    /\ item_status' = "failed"
    /\ raised_in' = stage

\* main.py 491-530
SaveClean ==
    /\ pc = "cut"
    /\ \E ffmpeg_ok \in BOOLEAN :
          LET r == CutAndMerge(segments_to_remove, total_duration, ffmpeg_ok) IN
          /\ cut_result' = r.result
          /\ keep_segments' = r.keep
          /\ segments_to_remove' = r.segs
          /\ joined' = IF r.result = "written" THEN Concat(Streams(r.keep)) ELSE joined
          /\ IF CutFailed(r.result) THEN Fail("cut") ELSE GoOn("cut")
    /\ UNCHANGED <<flags, total_duration, lua_skips, clean_transcript, clean_subs,
                   cache>>
    /\ UNCHANGED <<anVars, playVars, codecVars, batchVars>>

RECURSIVE LuaPairs(_)
\* _generate_lua_script's loop, lines 118-125: entries without start or end
\* are passed over
LuaPairs(segs) ==
    IF segs = <<>> THEN <<>>
    ELSE LET seg == segs[Len(segs)]
             rest == LuaPairs(SubSeq(segs, 1, Len(segs) - 1))
         IN IF IsNone(seg.start) \/ IsNone(seg.end) THEN rest
            ELSE Append(rest, <<FloatOf(seg.start).v, FloatOf(seg.end).v>>)

\* some float(start) or float(end) of that loop raises ValueError
LuaRaises(segs) ==
    \E i \in 1..Len(segs) :
        /\ ~IsNone(segs[i].start) /\ ~IsNone(segs[i].end)
        /\ (~FloatOf(segs[i].start).ok \/ ~FloatOf(segs[i].end).ok)

AllSeqs(S, n) == UNION {[1..k -> S] : k \in 0..n}

NumericSegs == {Seg("ad", Num(s), Num(e)) : s \in TimePoints, e \in TimePoints}

CutFlags == [save_clean |-> TRUE, save_transcript |-> FALSE, save_subs |-> FALSE,
             stop_early |-> FALSE]

\* the item is about to be cut: any remove list of numeric spans
InitCut ==
    /\ pc = "cut"
    /\ flags = CutFlags
    /\ segments_to_remove \in AllSeqs(NumericSegs, MaxSegs)
    /\ total_duration \in Durations
    /\ keep_segments = <<>>
    /\ cut_result = "none"
    /\ item_status = "running"
    /\ raised_in = "none"
    /\ lua_skips = LuaPairs(segments_to_remove)
    /\ clean_transcript = <<>>
    /\ clean_subs = <<>>
    /\ cache = NoCache
    /\ joined = <<>>
    /\ AnalysisIdle
    /\ PlayerIdle
    /\ CodecIdle
    /\ BatchIdle

NextCut == SaveClean

SpecCut == InitCut /\ [][NextCut]_vars

\* the spans of the cuts compared under reordering: equal starts, nested,
\* overlapping and degenerate spans, and spans reaching past a duration of 30
OrderTimePoints == {0, 10, 20, 100}
OrderSegs == {Seg("ad", Num(s), Num(e)) : s \in OrderTimePoints, e \in OrderTimePoints}

\* the item is about to be cut: any remove list of those spans
InitOrder ==
    /\ pc = "cut"
    /\ flags = CutFlags
    /\ segments_to_remove \in AllSeqs(OrderSegs, MaxSegs)
    /\ total_duration \in Durations
    /\ keep_segments = <<>>
    /\ cut_result = "none"
    /\ item_status = "running"
    /\ raised_in = "none"
    /\ lua_skips = LuaPairs(segments_to_remove)
    /\ clean_transcript = <<>>
    /\ clean_subs = <<>>
    /\ cache = NoCache
    /\ joined = <<>>
    /\ AnalysisIdle
    /\ PlayerIdle
    /\ CodecIdle
    /\ BatchIdle

SpecOrder == InitOrder /\ [][NextCut]_vars

LongSegs == {Seg("ad", Num(s), Num(e)) : s \in LongTimePoints, e \in LongTimePoints}

\* the item is about to be cut: a long file, spans of minutes
InitLong ==
    /\ pc = "cut"
    /\ flags = CutFlags
    /\ segments_to_remove \in AllSeqs(LongSegs, MaxSegs)
    /\ total_duration \in LongDurations
    /\ keep_segments = <<>>
    /\ cut_result = "none"
    /\ item_status = "running"
    /\ raised_in = "none"
    /\ lua_skips = LuaPairs(segments_to_remove)
    /\ clean_transcript = <<>>
    /\ clean_subs = <<>>
    /\ cache = NoCache
    /\ joined = <<>>
    /\ AnalysisIdle
    /\ PlayerIdle
    /\ CodecIdle
    /\ BatchIdle

SpecLong == InitLong /\ [][NextCut]_vars

(***************************************************************************)
(* ai_engine.AIEngine.analyze_transcript                                   *)
(***************************************************************************)
chunk_size_sec == 600
\* an overlap as long as the window itself
overlap_whole_window == 10 * 60
overlap_sec == 60
\* an attempt loop of six rounds
six_attempts == 2 * 3
MaxAttempts == 5

\* longest segment list in one detector response
MaxResp == 1

\* a transcript line
Line(s, e) == [start |-> s, end |-> e, text |-> TRUE]

\* the transcripts analysed: two overlapping windows sharing the line at
\* 590; a file whose middle window is empty; three chunks of one line; one
\* short chunk; no line at all
Transcripts ==
    { <<Line(0, 10), Line(300, 310), Line(590, 600), Line(700, 710)>>,
      <<Line(0, 10), Line(1300, 1310)>>,
      <<Line(0, 10), Line(700, 710), Line(1300, 1310)>>,
      <<Line(100, 104)>>,
      <<>> }

\* file_duration = whisper_segments[-1]['end'] if whisper_segments else 0
FileDuration(segs) == IF segs = <<>> THEN 0 ELSE segs[Len(segs)].end

RECURSIVE SelectWindowInclusive(_, _, _)
\* the inner for loop with a closed window end
SelectWindowInclusive(segs, from, to) ==
    IF segs = <<>> THEN <<>>
    ELSE LET rest == SelectWindowInclusive(SubSeq(segs, 1, Len(segs) - 1), from, to)
             last == segs[Len(segs)]
         IN IF last.start >= from /\ last.start <= to THEN Append(rest, last) ELSE rest

RECURSIVE SelectWindow(_, _, _)
\* the inner for loop: the lines whose start is in [from, to), in order
SelectWindow(segs, from, to) ==
    IF segs = <<>> THEN <<>>
    ELSE LET rest == SelectWindow(SubSeq(segs, 1, Len(segs) - 1), from, to)
             last == segs[Len(segs)]
         IN IF last.start >= from /\ last.start < to THEN Append(rest, last) ELSE rest

\* a parsed value as the detector call returns it to analyze_transcript
Dict(segs) == [kind |-> "dict", truthy |-> TRUE, has_key |-> TRUE,
               is_list |-> TRUE, segs |-> segs]
EmptyDict == [kind |-> "dict", truthy |-> FALSE, has_key |-> FALSE,
              is_list |-> FALSE, segs |-> <<>>]
DictNoKey == [kind |-> "dict", truthy |-> TRUE, has_key |-> FALSE,
              is_list |-> FALSE, segs |-> <<>>]
DictBadKey == [kind |-> "dict", truthy |-> TRUE, has_key |-> TRUE,
               is_list |-> FALSE, segs |-> <<>>]
Scalar(truthy) == [kind |-> "scalar", truthy |-> truthy, has_key |-> FALSE,
                   is_list |-> FALSE, segs |-> <<>>]

\* the text a provider answers with, by what json.loads and the recovery
\* regular expression make of it
Shapes == {"object", "list", "truncated", "garbage", "scalar", "null",
           "empty_object", "object_no_key", "object_bad_key"}
ListShapes == {"object", "list", "truncated"}

Types == {"ad", "intro", "outro"}

\* the entries a response about a chunk may hold: a line of the chunk,
\* with the timestamps of the input JSON, under any label
ResponseSegs(chunk) ==
    {Seg(ty, Num(chunk[k].start), Num(chunk[k].end)) : ty \in Types, k \in 1..Len(chunk)}

Responses(chunk) ==
    {[shape |-> sh, segs |-> ss] : sh \in ListShapes,
                                   ss \in AllSeqs(ResponseSegs(chunk), MaxResp)}
    \cup {[shape |-> sh, segs |-> <<>>] : sh \in Shapes \ ListShapes}

\* _call_gemini_chunk returning a bare list as it was parsed, without the
\* wrapping of lines 130-134
ParseGeminiListAsIs(resp) ==
    CASE resp.shape = "list" -> Scalar(resp.segs # <<>>)
      [] resp.shape = "object" -> Dict(resp.segs)
      [] resp.shape = "truncated" -> Dict(resp.segs)
      [] resp.shape = "garbage" -> Dict(<<>>)
      [] resp.shape = "scalar" -> Scalar(TRUE)
      [] resp.shape = "null" -> Scalar(FALSE)
      [] resp.shape = "empty_object" -> EmptyDict
      [] resp.shape = "object_no_key" -> DictNoKey
      [] OTHER -> DictBadKey

\* _call_gemini_chunk, lines 127-142: what a response text is returned as
ParseGemini(resp) ==
    CASE resp.shape = "list" -> Dict(resp.segs)
      [] resp.shape = "object" -> Dict(resp.segs)
      [] resp.shape = "truncated" -> Dict(resp.segs)
      [] resp.shape = "garbage" -> Dict(<<>>)
      [] resp.shape = "scalar" -> Scalar(TRUE)
      [] resp.shape = "null" -> Scalar(FALSE)
      [] resp.shape = "empty_object" -> EmptyDict
      [] resp.shape = "object_no_key" -> DictNoKey
      [] OTHER -> DictBadKey

\* _call_openrouter_chunk, lines 194-207
ParseOpenRouter(resp) ==
    CASE resp.shape = "list" -> Dict(resp.segs)
      [] resp.shape = "object" -> Dict(resp.segs)
      [] resp.shape = "truncated" -> Dict(resp.segs)
      [] resp.shape = "garbage" -> EmptyDict
      [] resp.shape = "scalar" -> Scalar(TRUE)
      [] resp.shape = "null" -> Scalar(FALSE)
      [] resp.shape = "empty_object" -> EmptyDict
      [] resp.shape = "object_no_key" -> DictNoKey
      [] OTHER -> DictBadKey

\* lines 102-103 raise: .get on a value that is no dict, or extend with
\* a value that is no list
ExtendRaises(data) ==
    data.truthy /\ (data.kind # "dict" \/ (data.has_key /\ ~data.is_list))

\* response_data.get("segments_to_remove", [])
ExtendWith(data) == IF data.truthy /\ data.has_key THEN data.segs ELSE <<>>

\* no response text: the call failed
NoResponse == [shape |-> "none", segs |-> <<>>]

\* the return of the detector call into the chunk loop (lines 100-105):
\* the value is accumulated and the loop goes on to the next chunk
Deliver(data, how, resp) ==
    IF ExtendRaises(data)
    THEN /\ an_pc' = "raised"
         /\ chunk_outcomes' = Append(chunk_outcomes, how)
         /\ last_response' = resp
         /\ UNCHANGED <<chunk_i, attempt, all_remove_segments, segment_chunk>>
    ELSE /\ all_remove_segments' = all_remove_segments \o ExtendWith(data)
         /\ chunk_outcomes' = Append(chunk_outcomes, how)
         /\ last_response' = resp
         /\ segment_chunk' = segment_chunk \o [k \in 1..Len(ExtendWith(data)) |-> chunk_i]
         /\ attempt' = 0
         /\ chunk_i' = chunk_i + 1
         /\ an_pc' = IF chunk_i + 1 > Len(chunks) THEN "returned" ELSE "gemini"

\* _call_openrouter_chunk raising where it returns {} for a missing client
EnterOpenRouterRaising ==
    IF or_client
    THEN /\ an_pc' = "openrouter"
         /\ last_response' = NoResponse
         /\ UNCHANGED <<chunk_i, attempt, all_remove_segments, segment_chunk,
                        chunk_outcomes>>
    ELSE /\ an_pc' = "raised"
         /\ chunk_outcomes' = Append(chunk_outcomes, "failed")
         /\ last_response' = NoResponse
         /\ UNCHANGED <<chunk_i, attempt, all_remove_segments, segment_chunk>>

\* _call_openrouter_chunk is entered: without a client it returns {} at once
EnterOpenRouter ==
    IF or_client
    THEN /\ an_pc' = "openrouter"
         /\ last_response' = NoResponse
         /\ UNCHANGED <<chunk_i, attempt, all_remove_segments, segment_chunk,
                        chunk_outcomes>>
    ELSE Deliver(EmptyDict, "failed", NoResponse)

\* chunks.append(current_chunk) without the test of line 53
AppendChunkAlways(cs, current_chunk) == Append(cs, current_chunk)

\* lines 53-54: if current_chunk: chunks.append(current_chunk)
AppendChunk(cs, current_chunk) ==
    IF current_chunk # <<>> THEN Append(cs, current_chunk) ELSE cs

\* lines 33-44: the transcript is read
StartAnalysis ==
    /\ an_pc = "start"
    /\ start_time' = 0
    /\ an_pc' = IF 0 < FileDuration(whisper_segments) THEN "window" ELSE "returned"
    /\ UNCHANGED <<whisper_segments, chunks, chunk_i, attempt, current_model_idx,
                   model_name, or_client, all_remove_segments, chunk_starts,
                   segment_chunk, window_starts, chunk_outcomes, last_response,
                   calls>>
    /\ UNCHANGED <<itemVars, playVars, codecVars, batchVars>>

\* one iteration of the windowing loop, lines 46-57
WindowStep ==
    /\ an_pc = "window"
    /\ start_time < FileDuration(whisper_segments)
    /\ LET current_chunk ==
               SelectWindow(whisper_segments, start_time, start_time + chunk_size_sec)
           grown == AppendChunk(chunks, current_chunk)
       IN /\ chunks' = grown
          /\ chunk_starts' = IF current_chunk # <<>>
                             THEN Append(chunk_starts, start_time) ELSE chunk_starts
          /\ window_starts' = Append(window_starts, start_time)
          /\ start_time' = start_time + (chunk_size_sec - overlap_sec)
          /\ IF start_time + (chunk_size_sec - overlap_sec) < FileDuration(whisper_segments)
             THEN an_pc' = "window" /\ chunk_i' = chunk_i
             ELSE IF grown = <<>>
             THEN an_pc' = "returned" /\ chunk_i' = chunk_i
             ELSE an_pc' = "gemini" /\ chunk_i' = 1
    /\ UNCHANGED <<whisper_segments, attempt, current_model_idx, model_name,
                   or_client, all_remove_segments, segment_chunk, chunk_outcomes,
                   last_response, calls>>
    /\ UNCHANGED <<itemVars, playVars, codecVars, batchVars>>

\* one iteration of the attempt loop of _call_gemini_chunk, lines 115-172
GeminiAttempt ==
    /\ an_pc = "gemini"
    /\ attempt < MaxAttempts
    /\ calls' = [gemini |-> (IF attempt = 0 THEN 0 ELSE calls.gemini) + 1,
                 openrouter |-> 0]
    /\ \E outcome \in {"ok", "quota", "error"} :
          IF outcome = "ok"
          THEN /\ \E resp \in Responses(chunks[chunk_i]) : Deliver(ParseGemini(resp), "answered", resp)
               /\ UNCHANGED <<current_model_idx, model_name>>
          ELSE IF outcome = "quota"
          THEN /\ current_model_idx' = current_model_idx + 1
               /\ IF current_model_idx + 1 < Len(models_to_try)
                  THEN /\ model_name' = models_to_try[current_model_idx + 2]
                       /\ IF attempt + 1 < MaxAttempts
                          THEN /\ attempt' = attempt + 1
                               /\ last_response' = NoResponse
                               /\ UNCHANGED <<an_pc, chunk_i, all_remove_segments,
                                              segment_chunk, chunk_outcomes>>
                          ELSE EnterOpenRouter
                  ELSE /\ model_name' = model_name
                       /\ EnterOpenRouter
          ELSE /\ UNCHANGED <<current_model_idx, model_name>>
               /\ IF attempt + 1 < MaxAttempts
                  THEN /\ attempt' = attempt + 1
                       /\ last_response' = NoResponse
                       /\ UNCHANGED <<an_pc, chunk_i, all_remove_segments, segment_chunk,
                                      chunk_outcomes>>
                  ELSE EnterOpenRouter
    /\ UNCHANGED <<whisper_segments, start_time, chunks, or_client, chunk_starts,
                   window_starts>>
    /\ UNCHANGED <<itemVars, playVars, codecVars, batchVars>>

\* the alternate provider's call, lines 183-211
OpenRouterCall ==
    /\ an_pc = "openrouter"
    /\ calls' = [calls EXCEPT !.openrouter = @ + 1]
    /\ \E outcome \in {"ok", "error"} :
          IF outcome = "ok"
          THEN \E resp \in Responses(chunks[chunk_i]) :
                  Deliver(ParseOpenRouter(resp),
                          IF resp.shape = "garbage" THEN "failed" ELSE "answered", resp)
          ELSE Deliver(EmptyDict, "failed", NoResponse)
    /\ UNCHANGED <<whisper_segments, start_time, chunks, current_model_idx, model_name,
                   or_client, chunk_starts, window_starts>>
    /\ UNCHANGED <<itemVars, playVars, codecVars, batchVars>>

ItemIdle ==
    /\ pc = "analysis"
    /\ flags = CutFlags
    /\ segments_to_remove = <<>>
    /\ total_duration = 0
    /\ keep_segments = <<>>
    /\ cut_result = "none"
    /\ item_status = "running"
    /\ raised_in = "none"
    /\ lua_skips = <<>>
    /\ clean_transcript = <<>>
    /\ clean_subs = <<>>
    /\ cache = NoCache
    /\ joined = <<>>

\* a fresh engine is asked to analyse a transcript
InitAnalysis ==
    /\ ItemIdle
    /\ whisper_segments \in Transcripts
    /\ an_pc = "start"
    /\ start_time = 0
    /\ chunks = <<>>
    /\ chunk_i = 0
    /\ attempt = 0
    /\ current_model_idx = 0
    /\ model_name = models_to_try[1]
    /\ or_client \in BOOLEAN
    /\ all_remove_segments = <<>>
    /\ chunk_starts = <<>>
    /\ segment_chunk = <<>>
    /\ window_starts = <<>>
    /\ chunk_outcomes = <<>>
    /\ last_response = [shape |-> "none", segs |-> <<>>]
    /\ calls = NoCalls
    /\ PlayerIdle
    /\ CodecIdle
    /\ BatchIdle

NextAnalysis == StartAnalysis \/ WindowStep \/ GeminiAttempt \/ OpenRouterCall

SpecAnalysis == InitAnalysis /\ [][NextAnalysis]_vars

\* most lines of a transcript handed to the windowing loop
MaxLines == 3

\* where the lines of those transcripts start; each is 10 seconds long
WindowLineStarts == {0, 300, 590, 600, 1140, 1490}

RECURSIVE LinesOf(_)
\* the transcript with a line at each start of S, in time order
LinesOf(S) ==
    IF S = {} THEN <<>>
    ELSE LET m == CHOOSE x \in S : \A y \in S : x <= y
         IN <<Line(m, m + 10)>> \o LinesOf(S \ {m})

\* where the cues of converted captions start
CaptionStarts == {0, 540, 590}

RECURSIVE CaptionsOf(_)
\* media_downloader.py 137-146: a caption event without dDurationMs
\* becomes a line whose end is its start
CaptionsOf(S) ==
    IF S = {} THEN <<>>
    ELSE LET m == CHOOSE x \in S : \A y \in S : x <= y
         IN <<Line(m, m)>> \o CaptionsOf(S \ {m})

WindowTranscripts ==
    {LinesOf(S) : S \in {T \in SUBSET WindowLineStarts : Cardinality(T) <= MaxLines}}
    \cup {CaptionsOf(S) : S \in {T \in SUBSET CaptionStarts : Cardinality(T) <= MaxLines}}

\* a fresh engine is asked to analyse one of these transcripts
InitWindow ==
    /\ ItemIdle
    /\ whisper_segments \in WindowTranscripts
    /\ an_pc = "start"
    /\ start_time = 0
    /\ chunks = <<>>
    /\ chunk_i = 0
    /\ attempt = 0
    /\ current_model_idx = 0
    /\ model_name = models_to_try[1]
    /\ or_client = FALSE
    /\ all_remove_segments = <<>>
    /\ chunk_starts = <<>>
    /\ segment_chunk = <<>>
    /\ window_starts = <<>>
    /\ chunk_outcomes = <<>>
    /\ last_response = [shape |-> "none", segs |-> <<>>]
    /\ calls = NoCalls
    /\ PlayerIdle
    /\ CodecIdle
    /\ BatchIdle

\* the windowing loop alone, up to the first detector call
NextWindow == StartAnalysis \/ WindowStep

SpecWindow == InitWindow /\ [][NextWindow]_vars

\* the loop is sequential code of a running call: it keeps taking its
\* next step while it has one
SpecWindowFair == SpecWindow /\ WF_vars(NextWindow)

(***************************************************************************)
(* The outputs of an item: skip script, media cut, clean transcript and    *)
(* clean subtitles (main.py 465-572).                                      *)
(***************************************************************************)
\* longest remove list of an item in the output pipeline
MaxItemSegs == 2

\* main.py 474-487: the skip script is generated; play and dry run return
GenerateLua ==
    /\ pc = "lua"
    /\ IF LuaRaises(segments_to_remove)
       THEN Fail("lua") /\ lua_skips' = lua_skips
       ELSE GoOn("lua") /\ lua_skips' = LuaPairs(segments_to_remove)
    /\ UNCHANGED <<flags, segments_to_remove, total_duration, keep_segments,
                   cut_result, clean_transcript, clean_subs, cache, joined>>
    /\ UNCHANGED <<anVars, playVars, codecVars, batchVars>>

\* the midpoint test with an open span end
StrictlyBefore(mid2, end) == mid2 < 2 * end

\* midpoint <= float(end_val), for the doubled midpoint
NotAfter(mid2, end) == mid2 <= 2 * end

RECURSIVE IsAd(_, _, _)
\* the inner loop of main.py 555-561 and 169-176 from entry i on, for a line
\* of doubled midpoint mid2 = start + end: "ad", "keep" or "raise"
IsAd(mid2, segs, i) ==
    IF i > Len(segs) THEN "keep"
    ELSE LET r == segs[i] IN
         IF IsNone(r.start) \/ IsNone(r.end) THEN IsAd(mid2, segs, i + 1)
         ELSE IF ~FloatOf(r.start).ok THEN "raise"
         ELSE IF mid2 < 2 * FloatOf(r.start).v THEN IsAd(mid2, segs, i + 1)
         ELSE IF ~FloatOf(r.end).ok THEN "raise"
         ELSE IF NotAfter(mid2, FloatOf(r.end).v) THEN "ad"
         ELSE IsAd(mid2, segs, i + 1)

\* what the filter makes of one transcript line; a line without text is
\* passed over before the remove list is looked at
LineVerdict(line, segs) ==
    IF ~line.text THEN "blank" ELSE IsAd(line.start + line.end, segs, 1)

FilterRaises(lines, segs) ==
    \E k \in 1..Len(lines) : LineVerdict(lines[k], segs) = "raise"

RECURSIVE FilterLines(_, _)
\* the lines that are written, in order
FilterLines(lines, segs) ==
    IF lines = <<>> THEN <<>>
    ELSE LET rest == FilterLines(SubSeq(lines, 1, Len(lines) - 1), segs)
             last == lines[Len(lines)]
         IN IF LineVerdict(last, segs) = "keep" THEN Append(rest, last) ELSE rest

\* main.py 543-569
SaveTranscript ==
    /\ pc = "transcript"
    /\ IF FilterRaises(whisper_segments, segments_to_remove)
       THEN Fail("transcript") /\ clean_transcript' = clean_transcript
       ELSE GoOn("transcript")
            /\ clean_transcript' = FilterLines(whisper_segments, segments_to_remove)
    /\ UNCHANGED <<flags, segments_to_remove, total_duration, keep_segments,
                   cut_result, lua_skips, clean_subs, cache, joined>>
    /\ UNCHANGED <<anVars, playVars, codecVars, batchVars>>

\* main.py 571-572, _generate_srt_file
SaveSubs ==
    /\ pc = "subs"
    /\ IF FilterRaises(whisper_segments, segments_to_remove)
       THEN Fail("subs") /\ clean_subs' = clean_subs
       ELSE GoOn("subs")
            /\ clean_subs' = FilterLines(whisper_segments, segments_to_remove)
    /\ UNCHANGED <<flags, segments_to_remove, total_duration, keep_segments,
                   cut_result, lua_skips, clean_transcript, cache, joined>>
    /\ UNCHANGED <<anVars, playVars, codecVars, batchVars>>

\* the start and end values of the entries of an item's remove list:
\* numbers, "0:10"-like strings, text that is no timestamp, None, no key
ItemStarts == {Num(10), Str(<<NumField(0), NumField(10)>>), Str(<<TextField>>),
               None, Missing}
ItemEnds == {Num(30), Str(<<NumField(0), NumField(30)>>), Str(<<TextField>>), Missing}
ItemSegs == {Seg("ad", s, e) : s \in ItemStarts, e \in ItemEnds}

\* the transcript of the item: a line inside [10, 30], one outside, one
\* without text
ItemTranscript ==
    <<Line(15, 25), [start |-> 26, end |-> 28, text |-> FALSE], Line(40, 50)>>

ItemFlags ==
    { [save_clean |-> TRUE, save_transcript |-> TRUE, save_subs |-> TRUE,
       stop_early |-> FALSE],
      [save_clean |-> FALSE, save_transcript |-> TRUE, save_subs |-> FALSE,
       stop_early |-> FALSE],
      [save_clean |-> FALSE, save_transcript |-> FALSE, save_subs |-> TRUE,
       stop_early |-> FALSE],
      [save_clean |-> TRUE, save_transcript |-> TRUE, save_subs |-> TRUE,
       stop_early |-> TRUE] }

\* the remove list of an item is known (from the analysis or the cache) and
\* its outputs are about to be generated
InitItem ==
    /\ pc = "lua"
    /\ flags \in ItemFlags
    /\ segments_to_remove \in AllSeqs(ItemSegs, MaxItemSegs)
    /\ total_duration = 100
    /\ keep_segments = <<>>
    /\ cut_result = "none"
    /\ item_status = "running"
    /\ raised_in = "none"
    /\ lua_skips = <<>>
    /\ clean_transcript = <<>>
    /\ clean_subs = <<>>
    /\ cache = NoCache
    /\ joined = <<>>
    /\ PlayerIdle
    /\ CodecIdle
    /\ BatchIdle
    /\ whisper_segments = ItemTranscript
    /\ an_pc = "idle"
    /\ start_time = 0
    /\ chunks = <<>>
    /\ chunk_i = 0
    /\ attempt = 0
    /\ current_model_idx = 0
    /\ model_name = models_to_try[1]
    /\ or_client = FALSE
    /\ all_remove_segments = <<>>
    /\ chunk_starts = <<>>
    /\ segment_chunk = <<>>
    /\ window_starts = <<>>
    /\ chunk_outcomes = <<>>
    /\ last_response = [shape |-> "none", segs |-> <<>>]
    /\ calls = NoCalls

NextItem == GenerateLua \/ SaveClean \/ SaveTranscript \/ SaveSubs

SpecItem == InitItem /\ [][NextItem]_vars

(***************************************************************************)
(* The skip script at work in the player (main.py 128-141, player.py       *)
(* 83-103), while the item it was generated for is playing.                *)
(***************************************************************************)
\* most entries of the remove list the script is generated from
MaxSkips == 2

RECURSIVE SkipLast(_, _, _)
\* the loop without its break: every pair is tested against the position
\* read at the start, and the last hit wins
SkipLast(pos, skips, i) ==
    IF i > Len(skips) THEN pos
    ELSE LET rest == SkipLast(pos, skips, i + 1) IN
         IF rest # pos THEN rest
         ELSE IF pos >= skips[i][1] /\ pos < skips[i][2] THEN skips[i][2]
         ELSE pos

RECURSIVE SkipToStart(_, _, _)
\* the loop setting the position to the start of the pair it is in
SkipToStart(pos, skips, i) ==
    IF i > Len(skips) THEN pos
    ELSE IF pos >= skips[i][1] /\ pos < skips[i][2] THEN skips[i][1]
    ELSE SkipToStart(pos, skips, i + 1)

RECURSIVE SkipTarget(_, _, _)
\* the ipairs loop from pair i on: the stop of the first pair holding pos,
\* or pos when there is none
SkipTarget(pos, skips, i) ==
    IF i > Len(skips) THEN pos
    ELSE IF pos >= skips[i][1] /\ pos < skips[i][2] THEN skips[i][2]
    ELSE SkipTarget(pos, skips, i + 1)

\* the callback of mp.add_periodic_timer(0.25, ...)
PeriodicCheck ==
    /\ pc = "playing"
    /\ IF time_pos = NoPos
       THEN UNCHANGED <<time_pos, osd_message>>
       ELSE /\ time_pos' = SkipTarget(time_pos, lua_skips, 1)
            /\ osd_message' = IF SkipTarget(time_pos, lua_skips, 1) # time_pos
                               THEN "Auto-Skipped Ad Section" ELSE osd_message
    /\ UNCHANGED <<itemVars, anVars, codecVars, batchVars>>

\* where the playback position may be when a check reads it
PlayPositions == {0, 10, 15, 20, 25, 30, 35}

\* the player moves on, or the listener seeks; a shown message is gone
Playback ==
    /\ pc = "playing"
    /\ time_pos' \in PlayPositions
    /\ osd_message' = ""
    /\ UNCHANGED <<itemVars, anVars, codecVars, batchVars>>

\* the entries of the remove list of the item being played
PlaySegs == {Seg("ad", s, e) : s \in {Num(10), Num(20), None}, e \in {Num(20), Num(30)}}

\* --play: the function returns once the player is done
PlayFlags == [save_clean |-> FALSE, save_transcript |-> FALSE, save_subs |-> FALSE,
              stop_early |-> TRUE]

\* the player was started with the script of the item (main.py 478-481)
InitPlayer ==
    /\ pc = "playing"
    /\ flags = PlayFlags
    /\ segments_to_remove \in AllSeqs(PlaySegs, MaxSkips)
    /\ total_duration = 35
    /\ keep_segments = <<>>
    /\ cut_result = "none"
    /\ item_status = "running"
    /\ raised_in = "none"
    /\ lua_skips = LuaPairs(segments_to_remove)
    /\ clean_transcript = <<>>
    /\ clean_subs = <<>>
    /\ cache = NoCache
    /\ joined = <<>>
    /\ AnalysisIdle
    /\ time_pos = NoPos
    /\ osd_message = ""
    /\ CodecIdle
    /\ BatchIdle

NextPlayer == PeriodicCheck \/ Playback

SpecPlayer == InitPlayer /\ [][NextPlayer]_vars

\* the remove-spans the text outputs are filtered by: numeric spans around
\* 90 and 102, and entries without a start or an end
TextStarts == {Num(90), Num(102), None}
TextEnds == {Num(90), Num(102), Num(103), Missing}
TextSegs == {Seg("ad", s, e) : s \in TextStarts, e \in TextEnds}

\* lines of midpoint 89.5, 90, 102, 102.5 and 104.5, and one without text
TextTranscript ==
    <<Line(70, 109), Line(80, 100), Line(100, 104),
      [start |-> 101, end |-> 103, text |-> FALSE], Line(100, 105), Line(104, 105)>>

TextFlags == [save_clean |-> FALSE, save_transcript |-> TRUE, save_subs |-> TRUE,
              stop_early |-> FALSE]

\* the text outputs of an item are about to be written
InitText ==
    /\ pc = "transcript"
    /\ flags = TextFlags
    /\ segments_to_remove \in AllSeqs(TextSegs, MaxItemSegs)
    /\ total_duration = 110
    /\ keep_segments = <<>>
    /\ cut_result = "none"
    /\ item_status = "running"
    /\ raised_in = "none"
    /\ lua_skips = LuaPairs(segments_to_remove)
    /\ clean_transcript = <<>>
    /\ clean_subs = <<>>
    /\ cache = NoCache
    /\ joined = <<>>
    /\ PlayerIdle
    /\ CodecIdle
    /\ BatchIdle
    /\ whisper_segments = TextTranscript
    /\ an_pc = "idle"
    /\ start_time = 0
    /\ chunks = <<>>
    /\ chunk_i = 0
    /\ attempt = 0
    /\ current_model_idx = 0
    /\ model_name = models_to_try[1]
    /\ or_client = FALSE
    /\ all_remove_segments = <<>>
    /\ chunk_starts = <<>>
    /\ segment_chunk = <<>>
    /\ window_starts = <<>>
    /\ chunk_outcomes = <<>>
    /\ last_response = [shape |-> "none", segs |-> <<>>]
    /\ calls = NoCalls

NextText == SaveTranscript \/ SaveSubs

SpecText == InitText /\ [][NextText]_vars

(***************************************************************************)
(* One item from the cache check to its outputs (main.py 356-487), for a   *)
(* local file and a dry run.                                               *)
(***************************************************************************)
\* "schema_version": "v1" of the cache payload
CurrentSchema == "v1"

\* a cache file holding a JSON object
CacheRecord(version, segs) == [kind |-> "record", schema_version |-> version, segs |-> segs]

\* a cache file that json.load rejects
CorruptCache == [kind |-> "corrupt", schema_version |-> "none", segs |-> <<>>]

\* a cache file holding a JSON value that is falsy: {}, [], null, 0
FalsyCache == [kind |-> "falsy", schema_version |-> "none", segs |-> <<>>]

\* a cache file holding a truthy JSON value that is no object
NonDictCache == [kind |-> "nondict", schema_version |-> "none", segs |-> <<>>]

\* the cache check passing over the file it found
LoadCacheNoReuse ==
    /\ pc = "cache"
    /\ segments_to_remove' = segments_to_remove
    /\ pc' = "transcribe"
    /\ UNCHANGED <<item_status, raised_in>>
    /\ UNCHANGED <<flags, total_duration, keep_segments, cut_result, lua_skips,
                   clean_transcript, clean_subs, cache, joined>>
    /\ UNCHANGED <<anVars, playVars, codecVars, batchVars>>

\* main.py 356-393 and 460-462: the cache file is looked up and loaded;
\* `if not analysis` sends a missing, unreadable or falsy value to the
\* analysis, and analysis.get raises on a value that is no object
LoadCache ==
    /\ pc = "cache"
    /\ IF cache.kind = "record"
       THEN /\ segments_to_remove' = cache.segs
            /\ pc' = "lua"
            /\ UNCHANGED <<item_status, raised_in>>
       ELSE IF cache.kind = "nondict"
       THEN /\ segments_to_remove' = segments_to_remove
            /\ Fail("cache")
       ELSE /\ segments_to_remove' = segments_to_remove
            /\ pc' = "transcribe"
            /\ UNCHANGED <<item_status, raised_in>>
    /\ UNCHANGED <<flags, total_duration, keep_segments, cut_result, lua_skips,
                   clean_transcript, clean_subs, cache, joined>>
    /\ UNCHANGED <<anVars, playVars, codecVars, batchVars>>

\* main.py 431-442: the local file is transcribed; the analysis is entered
Transcribe ==
    /\ pc = "transcribe"
    /\ \E outcome \in {"ok", "error"} :
          IF outcome = "ok"
          THEN /\ pc' = "analysis"
               /\ an_pc' = "start"
               /\ UNCHANGED <<item_status, raised_in>>
          ELSE /\ Fail("transcribe")
               /\ an_pc' = an_pc
    /\ UNCHANGED <<flags, segments_to_remove, total_duration, keep_segments,
                   cut_result, lua_skips, clean_transcript, clean_subs, cache, joined>>
    /\ UNCHANGED <<whisper_segments, start_time, chunks, chunk_i, attempt,
                   current_model_idx, model_name, or_client, all_remove_segments,
                   chunk_starts, segment_chunk, window_starts, chunk_outcomes,
                   last_response, calls>>
    /\ UNCHANGED <<playVars, codecVars, batchVars>>

\* main.py 442-459: analyze_transcript is back; its list becomes the
\* item's remove list and is written to the cache file
FinishAnalysis ==
    /\ pc = "analysis"
    /\ an_pc \in {"returned", "raised"}
    /\ IF an_pc = "returned"
       THEN /\ segments_to_remove' = all_remove_segments
            /\ cache' = CacheRecord(CurrentSchema, all_remove_segments)
            /\ pc' = "lua"
            /\ UNCHANGED <<item_status, raised_in>>
       ELSE /\ Fail("analysis")
            /\ UNCHANGED <<segments_to_remove, cache>>
    /\ UNCHANGED <<flags, total_duration, keep_segments, cut_result, lua_skips,
                   clean_transcript, clean_subs, joined>>
    /\ UNCHANGED <<anVars, playVars, codecVars, batchVars>>

DryRunFlags == [save_clean |-> FALSE, save_transcript |-> FALSE, save_subs |-> FALSE,
                stop_early |-> TRUE]

\* what the cache file of the item may hold when the item is started
CachedLists == {<<>>, <<Seg("ad", Num(10), Num(30))>>}
CacheFiles ==
    {NoCache, CorruptCache, FalsyCache, NonDictCache}
    \cup {CacheRecord(v, segs) : v \in {CurrentSchema, "v0"}, segs \in CachedLists}

RunTranscripts == { <<Line(100, 104)>>, <<Line(0, 10), Line(1300, 1310)>> }

\* a local file is about to be processed
InitRun ==
    /\ pc = "cache"
    /\ flags = DryRunFlags
    /\ segments_to_remove = <<>>
    /\ total_duration = 0
    /\ keep_segments = <<>>
    /\ cut_result = "none"
    /\ item_status = "running"
    /\ raised_in = "none"
    /\ lua_skips = <<>>
    /\ clean_transcript = <<>>
    /\ clean_subs = <<>>
    /\ cache \in CacheFiles
    /\ joined = <<>>
    /\ whisper_segments \in RunTranscripts
    /\ an_pc = "idle"
    /\ start_time = 0
    /\ chunks = <<>>
    /\ chunk_i = 0
    /\ attempt = 0
    /\ current_model_idx = 0
    /\ model_name = models_to_try[1]
    /\ or_client \in BOOLEAN
    /\ all_remove_segments = <<>>
    /\ chunk_starts = <<>>
    /\ segment_chunk = <<>>
    /\ window_starts = <<>>
    /\ chunk_outcomes = <<>>
    /\ last_response = [shape |-> "none", segs |-> <<>>]
    /\ calls = NoCalls
    /\ PlayerIdle
    /\ CodecIdle
    /\ BatchIdle

NextRun ==
    \/ LoadCache
    \/ Transcribe
    \/ StartAnalysis
    \/ WindowStep
    \/ GeminiAttempt
    \/ OpenRouterCall
    \/ FinishAnalysis
    \/ GenerateLua

SpecRun == InitRun /\ [][NextRun]_vars

(***************************************************************************)
(* The batch loop of process() (main.py 271-307) over dry runs of local    *)
(* files, with one engine for the whole batch.                             *)
(***************************************************************************)
\* most items of a batch
MaxItems == 2

\* an item of the batch: what its cache file holds and what its
\* transcription gives
Item(c, lines) == [cache |-> c, transcript |-> lines]

\* an item with a cached record, one whose cache file makes the item
\* raise, and one that is transcribed and analysed
BatchItems ==
    { Item(CacheRecord(CurrentSchema, <<Seg("ad", Num(10), Num(30))>>), <<>>),
      Item(NonDictCache, <<>>),
      Item(NoCache, <<Line(100, 104)>>) }

\* lines 275-282 and 326-358: the loop takes the next item, and
\* _process_single_item_logic starts on it with fresh locals
BeginItem ==
    /\ pc = "batch"
    /\ item_idx < Len(files_to_process)
    /\ item_idx' = item_idx + 1
    /\ attempted' = Append(attempted, [item |-> item_idx + 1, how |-> "running"])
    /\ pc' = "cache"
    /\ cache' = files_to_process[item_idx + 1].cache
    /\ whisper_segments' = files_to_process[item_idx + 1].transcript
    /\ segments_to_remove' = <<>>
    /\ keep_segments' = <<>>
    /\ cut_result' = "none"
    /\ item_status' = "running"
    /\ raised_in' = "none"
    /\ lua_skips' = <<>>
    /\ clean_transcript' = <<>>
    /\ clean_subs' = <<>>
    /\ joined' = <<>>
    /\ an_pc' = "idle"
    /\ start_time' = 0
    /\ chunks' = <<>>
    /\ chunk_i' = 0
    /\ attempt' = 0
    /\ all_remove_segments' = <<>>
    /\ chunk_starts' = <<>>
    /\ segment_chunk' = <<>>
    /\ window_starts' = <<>>
    /\ chunk_outcomes' = <<>>
    /\ last_response' = [shape |-> "none", segs |-> <<>>]
    /\ calls' = NoCalls
    /\ UNCHANGED <<flags, total_duration, current_model_idx, model_name, or_client,
                   files_to_process, success_count, fail_count>>
    /\ UNCHANGED <<playVars, codecVars>>

\* the batch loop forgetting the items that raise
EndItemUncounted ==
    /\ pc = "done"
    /\ pc' = "batch"
    /\ success_count' = IF raised_in = "none" THEN success_count + 1 ELSE success_count
    /\ fail_count' = fail_count
    /\ attempted' = [attempted EXCEPT ![Len(attempted)].how =
                         IF raised_in = "none" THEN "returned" ELSE "raised"]
    /\ UNCHANGED <<flags, segments_to_remove, total_duration, keep_segments, cut_result,
                   item_status, raised_in, lua_skips, clean_transcript, clean_subs,
                   cache, joined, files_to_process, item_idx>>
    /\ UNCHANGED <<anVars, playVars, codecVars>>

\* lines 298-304: the call returned, or an exception was caught; the
\* loop goes on
EndItem ==
    /\ pc = "done"
    /\ pc' = "batch"
    /\ success_count' = IF raised_in = "none" THEN success_count + 1 ELSE success_count
    /\ fail_count' = IF raised_in = "none" THEN fail_count ELSE fail_count + 1
    /\ attempted' = [attempted EXCEPT ![Len(attempted)].how =
                         IF raised_in = "none" THEN "returned" ELSE "raised"]
    /\ UNCHANGED <<flags, segments_to_remove, total_duration, keep_segments, cut_result,
                   item_status, raised_in, lua_skips, clean_transcript, clean_subs,
                   cache, joined, files_to_process, item_idx>>
    /\ UNCHANGED <<anVars, playVars, codecVars>>

\* the files are discovered and the engine is built
InitBatch ==
    /\ pc = "batch"
    /\ flags = DryRunFlags
    /\ segments_to_remove = <<>>
    /\ total_duration = 0
    /\ keep_segments = <<>>
    /\ cut_result = "none"
    /\ item_status = "running"
    /\ raised_in = "none"
    /\ lua_skips = <<>>
    /\ clean_transcript = <<>>
    /\ clean_subs = <<>>
    /\ cache = NoCache
    /\ joined = <<>>
    /\ whisper_segments = <<>>
    /\ an_pc = "idle"
    /\ start_time = 0
    /\ chunks = <<>>
    /\ chunk_i = 0
    /\ attempt = 0
    /\ current_model_idx = 0
    /\ model_name = models_to_try[1]
    /\ or_client \in BOOLEAN
    /\ all_remove_segments = <<>>
    /\ chunk_starts = <<>>
    /\ segment_chunk = <<>>
    /\ window_starts = <<>>
    /\ chunk_outcomes = <<>>
    /\ last_response = [shape |-> "none", segs |-> <<>>]
    /\ calls = NoCalls
    /\ PlayerIdle
    /\ codec_pc = "idle"
    /\ codec_x = 0
    /\ codec_ts = None
    /\ codec_out = Ok(0)
    /\ files_to_process \in AllSeqs(BatchItems, MaxItems)
    /\ item_idx = 0
    /\ success_count = 0
    /\ fail_count = 0
    /\ attempted = <<>>

NextBatch ==
    \/ BeginItem
    \/ EndItem
    \/ LoadCache
    \/ Transcribe
    \/ StartAnalysis
    \/ WindowStep
    \/ GeminiAttempt
    \/ OpenRouterCall
    \/ FinishAnalysis
    \/ GenerateLua

SpecBatch == InitBatch /\ [][NextBatch]_vars

(***************************************************************************)
(* The timestamp conversions of utils.py on their own.                     *)
(***************************************************************************)
\* most colon-delimited fields of a string handed to parse_timestamp
MaxFields == 4

\* the numbers a field or a numeric input may be
FieldValues == {0, 1, 30}

Fields == {NumField(n) : n \in FieldValues} \cup {TextField}

ParseInputs ==
    {None, EmptyStr}
    \cup {Num(n) : n \in FieldValues}
    \cup {Str(fs) : fs \in UNION {[1..k -> Fields] : k \in 1..MaxFields}}

\* parse_timestamp is applied to codec_ts
ParseStep ==
    /\ codec_pc = "parse"
    /\ codec_out' = parse_timestamp(codec_ts)
    /\ codec_pc' = "done"
    /\ UNCHANGED <<codec_x, codec_ts>>
    /\ UNCHANGED <<itemVars, anVars, playVars, batchVars>>

\* some value is about to be parsed
InitParse ==
    /\ ItemIdle
    /\ AnalysisIdle
    /\ PlayerIdle
    /\ BatchIdle
    /\ codec_pc = "parse"
    /\ codec_x = 0
    /\ codec_ts \in ParseInputs
    /\ codec_out = Ok(0)

NextParse == ParseStep

SpecParse == InitParse /\ [][NextParse]_vars

\* seconds_to_timestamp is applied to codec_x
FormatStep ==
    /\ codec_pc = "format"
    /\ \E tie_up \in BOOLEAN : codec_ts' = seconds_to_timestamp(codec_x, tie_up)
    /\ codec_pc' = "parse"
    /\ UNCHANGED <<codec_x, codec_out>>
    /\ UNCHANGED <<itemVars, anVars, playVars, batchVars>>

\* how far, in quarters of a millisecond, the seconds handed to
\* seconds_to_timestamp lie from a whole second
MaxOff == 6

\* whole seconds around which they lie: zero, a minute, an hour, 100
\* hours, 101 hours and a minute
Bases == {0, 60 * Scale, 3600 * Scale, 360000 * Scale, 363660 * Scale}

FormatInputs == {b + d : b \in Bases, d \in (0 - MaxOff)..MaxOff} \cap Nat

\* some number of seconds is about to be printed and read back
InitRoundTrip ==
    /\ ItemIdle
    /\ AnalysisIdle
    /\ PlayerIdle
    /\ BatchIdle
    /\ codec_pc = "format"
    /\ codec_x \in FormatInputs
    /\ codec_ts = None
    /\ codec_out = Ok(0)

NextRoundTrip == FormatStep \/ ParseStep

SpecRoundTrip == InitRoundTrip /\ [][NextRoundTrip]_vars

(***************************************************************************)
(* Claims about the keep list (checked under SpecCut).                     *)
(***************************************************************************)
\* the sweep of lines 185-212 ran to its end
SweepRan == cut_result \in {"no_keep", "written", "ffmpeg_error"}

\* the instants of the model, and the elementary interval [t, NextPoint(t))
Grid == TimePoints \cup Durations
NextPoint(t) == CHOOSE g \in Grid : g > t /\ \A h \in Grid : h > t => g <= h
Instants(D) == {t \in Grid : 0 <= t /\ t < D}

InKeep(keep, t) == \E k \in 1..Len(keep) : keep[k][1] <= t /\ t < keep[k][2]
InRemove(segs, t) ==
    \E i \in 1..Len(segs) : segs[i].start.n <= t /\ t < segs[i].end.n

RECURSIVE SumLengths(_)
SumLengths(keep) ==
    IF keep = <<>> THEN 0
    ELSE (keep[Len(keep)][2] - keep[Len(keep)][1])
         + SumLengths(SubSeq(keep, 1, Len(keep) - 1))

RECURSIVE Measure(_)
\* the duration of a set of elementary intervals, given by their left ends
Measure(ts) ==
    IF ts = {} THEN 0
    ELSE LET t == CHOOSE x \in ts : TRUE
         IN (NextPoint(t) - t) + Measure(ts \ {t})

UnionDuration(segs, D) == Measure({t \in Instants(D) : InRemove(segs, t)})

ValidRemoveList(segs, D) ==
    \A i \in 1..Len(segs) :
        /\ segs[i].start.tag = "num" /\ segs[i].end.tag = "num"
        /\ 0 <= segs[i].start.n /\ segs[i].start.n < segs[i].end.n
        /\ segs[i].end.n <= D

RemoveAt(segs, i) == SubSeq(segs, 1, i - 1) \o SubSeq(segs, i + 1, Len(segs))

\* C1: whatever the remove list, the keep list the sweep builds is sorted
\* by start, pairwise non-overlapping, and each keep-span (s, e) has
\* 0 <= s < e <= D.
C1_KeepListWellFormed ==
    SweepRan =>
        /\ \A k \in 1..Len(keep_segments) :
              /\ 0 <= keep_segments[k][1]
              /\ keep_segments[k][1] < keep_segments[k][2]
              /\ keep_segments[k][2] <= total_duration
        /\ \A k \in 1..(Len(keep_segments) - 1) :
              /\ keep_segments[k][1] <= keep_segments[k + 1][1]
              /\ keep_segments[k][2] <= keep_segments[k + 1][1]

\* a cut of two separated spans (one of them reaching the end of the file,
\* so that the final-segment test decides) with audio kept before and between
C1_Witness ==
    /\ SweepRan
    /\ Len(keep_segments) >= 2
    /\ \E i \in 1..Len(segments_to_remove) :
          segments_to_remove[i].end.n >= total_duration
          /\ segments_to_remove[i].start.n < total_duration
          /\ segments_to_remove[i].start.n > 0

\* C2: for a valid remove list (0 <= start < end <= D, overlapping and
\* nested spans included) the keep list is the complement within [0, D] of
\* the union of the remove spans: every instant is in exactly one of the
\* two, and the kept duration is D minus the duration of the union.
C2_KeepIsComplement ==
    (SweepRan /\ ValidRemoveList(segments_to_remove, total_duration)) =>
        /\ \A t \in Instants(total_duration) :
              InKeep(keep_segments, t) <=> ~InRemove(segments_to_remove, t)
        /\ \A k \in 1..Len(keep_segments) :
              /\ keep_segments[k][1] \in Instants(total_duration)
              /\ keep_segments[k][2] \in Grid
              /\ keep_segments[k][2] <= total_duration
        /\ SumLengths(keep_segments)
              = total_duration - UnionDuration(segments_to_remove, total_duration)

\* the spec's example: [(10,20),(15,30)] over D=100 gives [(0,10),(30,100)]
C2_Witness ==
    /\ SweepRan
    /\ total_duration = 100
    /\ segments_to_remove = <<Seg("ad", Num(10), Num(20)), Seg("ad", Num(15), Num(30))>>
    /\ keep_segments = <<<<0, 10>>, <<30, 100>>>>

\* C3: cutting with an empty remove list yields the single keep-span
\* (0, D) covering the whole file.
C3_EmptyRemoveKeepsWholeFile ==
    (cut_result # "none" /\ segments_to_remove = <<>>) =>
        keep_segments = <<<<0, total_duration>>>>

\* C4: when the remove spans cover all of [0, D] the keep list is empty and
\* the cut is aborted with an error: the item is not reported as a success
\* and no output file is written.
C4_TotalRemovalIsFatal ==
    (/\ cut_result \notin {"none", "raised"}
     /\ segments_to_remove # <<>>
     /\ \A t \in Instants(total_duration) : InRemove(segments_to_remove, t)) =>
        /\ keep_segments = <<>>
        /\ cut_result # "written"
        /\ item_status # "success"

\* the segment is one the sanity checks are to drop
Degenerate(seg, D) == seg.start.n >= seg.end.n \/ seg.start.n >= D

\* C5: a remove segment with start >= end, or with start >= D, is dropped:
\* wherever it sits in the list, the keep list is the one the sweep builds
\* with the segment absent; a segment whose end exceeds D is treated as
\* ending at D.
C5_DegenerateDropped ==
    [][SaveClean =>
        \A i \in 1..Len(segments_to_remove) :
            LET seg == segments_to_remove[i] IN
            /\ Degenerate(seg, total_duration) =>
                  keep_segments' = KeepList(RemoveAt(segments_to_remove, i), total_duration)
            /\ seg.end.n > total_duration =>
                  keep_segments' =
                      KeepList([segments_to_remove EXCEPT ![i].end = Num(total_duration)],
                               total_duration)]_vars

\* a degenerate span ahead of a real one, and a span running past the end
C5_Witness ==
    /\ SweepRan
    /\ Len(segments_to_remove) >= 2
    /\ \E i \in 1..Len(segments_to_remove) :
          /\ segments_to_remove[i].start.n > segments_to_remove[i].end.n
          /\ segments_to_remove[i].start.n < total_duration
    /\ \E i \in 1..Len(segments_to_remove) :
          /\ segments_to_remove[i].end.n > total_duration
          /\ segments_to_remove[i].start.n < segments_to_remove[i].end.n
          /\ segments_to_remove[i].start.n < total_duration
    /\ Len(keep_segments) >= 1

\* the spec's default ceiling on one segment's length (4.4): five minutes
MaxSegmentDuration == 5 * 60

\* C6 (checked under SpecLong): a segment longer than the maximum single-segment duration is
\* dropped before it can cut content: the keep list is the one built
\* without it, so (5, 400) over D >= 400 removes nothing.
C6_OverlongSegmentDropped ==
    SweepRan =>
        \A i \in 1..Len(segments_to_remove) :
            (segments_to_remove[i].end.n - segments_to_remove[i].start.n
                 > MaxSegmentDuration) =>
                keep_segments = KeepList(RemoveAt(segments_to_remove, i), total_duration)

(***************************************************************************)
(* Claims about the analysis (checked under SpecAnalysis).                 *)
(***************************************************************************)
Abs(n) == IF n < 0 THEN -n ELSE n

\* C7: a segment labeled intro that comes from a chunk other than the first
\* and does not start at that window's time zero never reaches the
\* accumulated remove list; likewise a segment labeled outro from a chunk
\* other than the last (one that neither starts at the window's zero nor
\* ends at the window's end).
C7_NoMidFileIntroOutro ==
    \A j \in 1..Len(all_remove_segments) :
        LET seg == all_remove_segments[j]
            c == segment_chunk[j]
        IN /\ ~(/\ seg.type = "intro"
                /\ c > 1
                /\ seg.start.n # chunk_starts[c])
           /\ ~(/\ seg.type = "outro"
                /\ an_pc \in {"gemini", "openrouter", "returned"}
                /\ c < Len(chunks)
                /\ seg.start.n # chunk_starts[c]
                /\ seg.end.n # chunk_starts[c] + chunk_size_sec)

\* the two windows overlap
Adjacent(c1, c2) ==
    c1 # c2 /\ Abs(chunk_starts[c1] - chunk_starts[c2]) = chunk_size_sec - overlap_sec

\* C8: two detections of the same ad from adjacent overlapping windows
\* (same kind, start and end each within 1 second) appear only once in the
\* remove list analyze_transcript returns.
C8_NoDuplicateAcrossWindows ==
    an_pc = "returned" =>
        \A i \in 1..Len(all_remove_segments) : \A j \in 1..Len(all_remove_segments) :
            (i < j /\ Adjacent(segment_chunk[i], segment_chunk[j])) =>
                ~(/\ all_remove_segments[i].type = all_remove_segments[j].type
                  /\ Abs(all_remove_segments[i].start.n - all_remove_segments[j].start.n) <= 1
                  /\ Abs(all_remove_segments[i].end.n - all_remove_segments[j].end.n) <= 1)

\* C9: whatever the detector's response (invalid or truncated JSON, a JSON
\* scalar, an object without a usable segments_to_remove list), it is
\* normalized to a list of segments and nothing is raised: the chunk loop
\* goes on as if no ads were found for the window.
C9_ResponseNeverRaises == an_pc # "raised"

(***************************************************************************)
(* Claims about the entries of the remove list (checked under SpecItem).   *)
(***************************************************************************)
\* the entry lacks start or end, or one of them is no parsable timestamp
Malformed(seg) ==
    \/ seg.start.tag = "missing" \/ seg.end.tag = "missing"
    \/ ~ParseKey(seg.start).ok \/ ~ParseKey(seg.end).ok

NumericEntry(seg) == seg.start.tag = "num" /\ seg.end.tag = "num"

\* C10: each entry of the remove list is validated on its own: an entry
\* that lacks start or end, or whose start or end is no parsable timestamp,
\* is dropped and the others are still processed; it never makes the cut,
\* the skip-script generation or the text filtering of the item fail.
C10_MalformedEntryNotFatal ==
    (/\ \E i \in 1..Len(segments_to_remove) : Malformed(segments_to_remove[i])
     /\ \A i \in 1..Len(segments_to_remove) :
           Malformed(segments_to_remove[i]) \/ NumericEntry(segments_to_remove[i])) =>
        /\ raised_in \notin {"lua", "transcript", "subs"}
        /\ cut_result # "raised"

\* the entry's start and end are colon-delimited strings parse_timestamp reads
StringSpan(seg) ==
    /\ seg.start.tag = "str" /\ seg.end.tag = "str"
    /\ Len(seg.start.fields) >= 2 /\ Len(seg.end.fields) >= 2
    /\ ParseKey(seg.start).ok /\ ParseKey(seg.end).ok

\* the entry with its start and end as the numbers parse_timestamp gives
AsNumbers(seg) == Seg(seg.type, Num(StartOf(seg)), Num(EndOf(seg)))

\* C27: a remove list of numeric entries and entries with colon-delimited
\* string timestamps makes none of its consumers raise, and the skip
\* script, the media cut and the transcript and subtitle filters all take
\* a string entry for the span its timestamps parse to.
C27_StringSpanSameEverywhere ==
    (/\ \E i \in 1..Len(segments_to_remove) : StringSpan(segments_to_remove[i])
     /\ \A i \in 1..Len(segments_to_remove) :
           StringSpan(segments_to_remove[i]) \/ NumericEntry(segments_to_remove[i])) =>
        LET numeric == [i \in 1..Len(segments_to_remove) |->
                           AsNumbers(segments_to_remove[i])]
        IN /\ raised_in \notin {"lua", "transcript", "subs"}
           /\ cut_result # "raised"
           /\ pc # "lua" => lua_skips = LuaPairs(numeric)
           /\ SweepRan => keep_segments = KeepList(numeric, total_duration)
           /\ (pc = "done" /\ flags.save_transcript /\ ~flags.stop_early) =>
                 clean_transcript = FilterLines(whisper_segments, numeric)
           /\ (pc = "done" /\ flags.save_subs /\ ~flags.stop_early) =>
                 clean_subs = FilterLines(whisper_segments, numeric)

(***************************************************************************)
(* Claims about failing detector calls (checked under SpecAnalysis).       *)
(***************************************************************************)
\* C11: when the detector call of a chunk fails for good (no alternate
\* provider is configured, or the alternate provider fails too), the
\* accumulated entries stay as they are, no exception leaves
\* analyze_transcript, and the loop goes on with the next chunk, or returns
\* the accumulated entries after the last one.
C11_FailedWindowIsSkipped ==
    [][chunk_outcomes' = Append(chunk_outcomes, "failed") =>
          /\ all_remove_segments' = all_remove_segments
          /\ chunk_i' = chunk_i + 1
          /\ an_pc' = IF chunk_i < Len(chunks) THEN "gemini" ELSE "returned"]_vars

\* the first chunk gave entries, the second chunk's call failed, and the
\* third chunk is about to be analysed
C11_Witness ==
    /\ chunk_outcomes = <<"answered", "failed">>
    /\ all_remove_segments # <<>>
    /\ an_pc = "gemini"
    /\ chunk_i = 3

\* every chunk's detector call failed
AllCallsFailed ==
    /\ chunks # <<>>
    /\ Len(chunk_outcomes) = Len(chunks)
    /\ \A k \in 1..Len(chunk_outcomes) : chunk_outcomes[k] = "failed"

\* C12: when the detector call of every chunk of an item fails, the item
\* is reported as failed: it is not counted as a success, and no analysis
\* record with an empty remove list is written for it.
C12_TotalFailureSurfaced ==
    AllCallsFailed =>
        /\ item_status # "success"
        /\ ~(cache.kind = "record" /\ cache.segs = <<>>)

(***************************************************************************)
(* Claims about the persisted analysis record (checked under SpecRun).     *)
(***************************************************************************)
\* C20: a persisted record whose schema_version is not the current one is
\* a cache miss: once the cache check is over the item is on the analysis
\* path (transcription, analysis, or a failure of these), and the record's
\* list has not become the item's remove list.
C20_StaleRecordIsCacheMiss ==
    (cache.kind = "record" /\ cache.schema_version # CurrentSchema /\ pc # "cache") =>
        \/ pc \in {"transcribe", "analysis"}
        \/ raised_in \in {"transcribe", "analysis"}

(***************************************************************************)
(* Claims about the windowing loop (checked under SpecWindow and           *)
(* SpecAnalysis).                                                          *)
(***************************************************************************)
\* the windowing loop is over
WindowingDone == an_pc \notin {"idle", "start", "window"}

\* the window starts below the file duration D: 0, W - O, 2(W - O), ...
StartsBelow(D) ==
    LET step == chunk_size_sec - overlap_sec
        n == Cardinality({k \in 0..(D \div step) : k * step < D})
    IN [k \in 1..n |-> (k - 1) * step]

\* the transcript lines whose start lies in [from, from + W), in order
LinesIn(from) ==
    SelectSeq(whisper_segments,
              LAMBDA l : l.start >= from /\ l.start < from + chunk_size_sec)

NonEmpty(c) == c # <<>>

\* C13: the windowing loop goes through the window starts 0, W - O,
\* 2(W - O), ... that are below the file duration and through no other,
\* and the chunk built for a window holds exactly the transcript lines
\* whose start lies in [start, start + W), the empty windows being left
\* out of the chunk list.
C13_WindowStartsAndContents ==
    /\ \A k \in 1..Len(window_starts) :
           window_starts[k] = (k - 1) * (chunk_size_sec - overlap_sec)
    /\ WindowingDone =>
           /\ window_starts = StartsBelow(FileDuration(whisper_segments))
           /\ chunks = SelectSeq([k \in 1..Len(window_starts) |-> LinesIn(window_starts[k])],
                                 NonEmpty)

\* a 1500-second file went through the starts 0, 540, 1080, and a line
\* starting at a window end was put into the later window only
C13_Witness ==
    /\ WindowingDone
    /\ FileDuration(whisper_segments) = 1500
    /\ window_starts = <<0, 540, 1080>>
    /\ \E k \in 1..Len(whisper_segments) : whisper_segments[k].start = 600
    /\ Len(chunks) = 3

\* C25: the windowing loop terminates for every file duration: the overlap
\* is shorter than the window, every iteration moves the window start
\* forward by window - overlap > 0, and the loop is eventually left.
C25_WindowingTerminates ==
    /\ [][WindowStep =>
             /\ overlap_sec < chunk_size_sec
             /\ start_time' = start_time + (chunk_size_sec - overlap_sec)
             /\ start_time' > start_time]_vars
    /\ <>WindowingDone

\* the loop over a 1500-second file was left after its third window, the
\* start having moved past the duration
C25_Witness ==
    /\ WindowingDone
    /\ FileDuration(whisper_segments) = 1500
    /\ Len(window_starts) = 3
    /\ start_time = 3 * (chunk_size_sec - overlap_sec)
    /\ start_time >= FileDuration(whisper_segments)

\* in how many chunks the line is
ChunksHolding(l) ==
    Cardinality({k \in 1..Len(chunks) :
                    \E j \in 1..Len(chunks[k]) : chunks[k][j] = l})

\* the instant lies in two consecutive windows of the run
InOverlap(s) ==
    \E k \in 1..(Len(window_starts) - 1) :
        window_starts[k + 1] <= s /\ s < window_starts[k] + chunk_size_sec

\* C28: once the windowing is done, every transcript line whose start is
\* in [0, file duration] is in one chunk or in two, and in two exactly
\* when its start is in the overlap of two consecutive windows.
C28_LineInOneOrTwoChunks ==
    WindowingDone =>
        \A i \in 1..Len(whisper_segments) :
            LET l == whisper_segments[i]
                n == ChunksHolding(l)
            IN (0 <= l.start /\ l.start <= FileDuration(whisper_segments)) =>
                  /\ n >= 1
                  /\ n <= 2
                  /\ n = 2 <=> InOverlap(l.start)

\* the window starts whose window holds a line
NonEmptyStarts == SelectSeq(window_starts, LAMBDA s : LinesIn(s) # <<>>)

\* C14: whenever a chunk is handed to a detector call, it holds at least
\* one transcript line, and its index and the total handed along count
\* the non-empty windows only.
C14_NoEmptyChunkSent ==
    an_pc \in {"gemini", "openrouter"} =>
        /\ chunk_i \in 1..Len(chunks)
        /\ chunks[chunk_i] # <<>>
        /\ Len(chunks) = Len(NonEmptyStarts)
        /\ chunks[chunk_i] = LinesIn(NonEmptyStarts[chunk_i])

\* the second chunk of a file whose middle window was empty is with the
\* detector
C14_Witness ==
    /\ an_pc = "gemini"
    /\ Len(window_starts) = 3
    /\ Len(chunks) = 2
    /\ chunk_i = 2

(***************************************************************************)
(* Claims about the text outputs (checked under SpecText).                 *)
(***************************************************************************)
\* twice the midpoint of line k lies inside some remove-span, ends included
MidpointInSpan(k) ==
    \E i \in 1..Len(segments_to_remove) :
        LET r == segments_to_remove[i] IN
        /\ r.start.tag = "num" /\ r.end.tag = "num"
        /\ 2 * r.start.n <= whisper_segments[k].start + whisper_segments[k].end
        /\ whisper_segments[k].start + whisper_segments[k].end <= 2 * r.end.n

Written(out, k) == \E j \in 1..Len(out) : out[j] = whisper_segments[k]

\* C15: once the clean transcript (the clean subtitles) is written, a line
\* with text is missing from it exactly when its midpoint lies inside some
\* remove-span, the span's end included.
C15_DroppedIffMidpointInSpan ==
    \A k \in 1..Len(whisper_segments) :
        whisper_segments[k].text =>
            /\ pc \in {"subs", "done"} => (~Written(clean_transcript, k) <=> MidpointInSpan(k))
            /\ pc = "done" => (~Written(clean_subs, k) <=> MidpointInSpan(k))

\* with the remove-span [90, 102], the line (100, 104) is in neither text
\* output and the line (100, 105) is in both
C15_Witness ==
    /\ pc = "done"
    /\ segments_to_remove = <<Seg("ad", Num(90), Num(102))>>
    /\ \A j \in 1..Len(clean_transcript) : clean_transcript[j] # Line(100, 104)
    /\ \A j \in 1..Len(clean_subs) : clean_subs[j] # Line(100, 104)
    /\ \E j \in 1..Len(clean_transcript) : clean_transcript[j] = Line(100, 105)
    /\ \E j \in 1..Len(clean_subs) : clean_subs[j] = Line(100, 105)

(***************************************************************************)
(* Claims about the joined output (checked under SpecCut).                 *)
(***************************************************************************)
\* C16: in a written output the trims are the keep-spans in keep-list
\* order, one per keep-span, and the k-th of them occupies the interval
\* that starts at the sum of the lengths of the keep-spans before it and is
\* as long as the keep-span: the output runs from 0 without gap or overlap.
C16_JoinedTimelineContinuous ==
    cut_result = "written" =>
        /\ Len(joined) = Len(keep_segments)
        /\ \A k \in 1..Len(joined) :
               /\ joined[k].src = keep_segments[k]
               /\ joined[k].out_start = SumLengths(SubSeq(keep_segments, 1, k - 1))
               /\ joined[k].out_end = SumLengths(SubSeq(keep_segments, 1, k))
               /\ joined[k].out_start < joined[k].out_end

\* three keep-spans around two remove-spans were joined
C16_Witness ==
    /\ cut_result = "written"
    /\ keep_segments = <<<<0, 10>>, <<15, 20>>, <<30, 100>>>>
    /\ joined[3].out_start = 15

\* the list with the entries at i and i + 1 exchanged
Exchange(segs, i) == [segs EXCEPT ![i] = segs[i + 1], ![i + 1] = segs[i]]

\* C24: the keep list a cut builds depends only on the set of remove
\* entries and the total duration: it is the keep list of the same list
\* with two neighbouring entries exchanged (every reordering is a chain of
\* such exchanges, and every list is cut), and of the same list with any
\* of its entries repeated at the end.
C24_KeepListOfSet ==
    [][(SaveClean /\ SweepRan') =>
          /\ \A i \in 1..(Len(segments_to_remove) - 1) :
                KeepList(Exchange(segments_to_remove, i), total_duration)
                    = keep_segments'
          /\ \A i \in 1..Len(segments_to_remove) :
                KeepList(Append(segments_to_remove, segments_to_remove[i]),
                         total_duration) = keep_segments']_vars

\* two spans with the same start, the longer one first (an order the
\* stable sort leaves as given), were cut
C24_Witness ==
    /\ SweepRan
    /\ total_duration = 100
    /\ segments_to_remove = <<Seg("ad", Num(10), Num(100)), Seg("ad", Num(10), Num(20))>>
    /\ keep_segments = <<<<0, 10>>>>

(***************************************************************************)
(* Claims about the skip script (checked under SpecPlayer).                *)
(***************************************************************************)
\* the listed pairs whose [start, stop) holds the playback position
PairsHolding(pos) ==
    {i \in 1..Len(lua_skips) : pos >= lua_skips[i][1] /\ pos < lua_skips[i][2]}

RECURSIVE AfterChecks(_, _)
\* where n checks in a row, with no playback between them, leave pos
AfterChecks(pos, n) ==
    IF n = 0 THEN pos ELSE AfterChecks(SkipTarget(pos, lua_skips, 1), n - 1)

\* C30: a check never sets the position to an earlier one; after a jump
\* the position is outside the pair that made the check jump (the first
\* pair it was in); and from any position, as many checks in a row as
\* there are pairs leave the position in no pair, so that no further
\* check jumps.
C30_ChecksMoveForwardAndSettle ==
    /\ [][(PeriodicCheck /\ time_pos # NoPos) =>
             /\ time_pos' >= time_pos
             /\ time_pos' # time_pos =>
                   \E i \in PairsHolding(time_pos) :
                       /\ \A j \in PairsHolding(time_pos) : i <= j
                       /\ i \notin PairsHolding(time_pos')
                       /\ time_pos' > time_pos]_vars
    /\ [](time_pos # NoPos =>
             /\ PairsHolding(AfterChecks(time_pos, Len(lua_skips))) = {}
             /\ \A p \in PlayPositions :
                   PairsHolding(AfterChecks(p, Len(lua_skips))) = {})

\* a check jumped out of the second of two pairs that follow one another,
\* to a position that is in no pair
C30_Witness ==
    /\ lua_skips = <<<<10, 20>>, <<20, 30>>>>
    /\ time_pos = 30
    /\ osd_message = "Auto-Skipped Ad Section"

(***************************************************************************)
(* Claims about the timestamp conversions (checked under SpecParse and     *)
(* SpecRoundTrip).                                                         *)
(***************************************************************************)
AllNumeric(fs) == \A i \in 1..Len(fs) : fs[i].numeric

\* C18: parse_timestamp gives the number itself for a number, 0 for None
\* and for the empty string, S, 60 M + S and 3600 H + 60 M + S for a
\* string of one, two and three numeric fields, and raises for a string
\* of more than three fields or with a field that is no number.
C18_ParseTimestampCases ==
    codec_pc = "done" =>
        LET fs == codec_ts.fields IN
        /\ codec_ts.tag = "num" => codec_out = Ok(codec_ts.n)
        /\ codec_ts.tag \in {"none", "emptystr"} => codec_out = Ok(0)
        /\ (codec_ts.tag = "str" /\ AllNumeric(fs) /\ Len(fs) = 1) =>
               codec_out = Ok(fs[1].n)
        /\ (codec_ts.tag = "str" /\ AllNumeric(fs) /\ Len(fs) = 2) =>
               codec_out = Ok(60 * fs[1].n + fs[2].n)
        /\ (codec_ts.tag = "str" /\ AllNumeric(fs) /\ Len(fs) = 3) =>
               codec_out = Ok(3600 * fs[1].n + 60 * fs[2].n + fs[3].n)
        /\ (codec_ts.tag = "str" /\ (Len(fs) > 3 \/ ~AllNumeric(fs))) =>
               ~codec_out.ok

\* "1:30" was parsed to 90
C18_Witness ==
    /\ codec_pc = "done"
    /\ codec_ts = Str(<<NumField(1), NumField(30)>>)
    /\ codec_out = Ok(90)

\* C19: a number of seconds x >= 0 printed by seconds_to_timestamp and
\* read back by parse_timestamp is at most one millisecond away from x.
C19_RoundTripWithinMillisecond ==
    codec_pc = "done" =>
        /\ codec_out.ok
        /\ Abs(codec_out.v - codec_x) <= Scale \div 1000

\* more than 100 hours whose seconds part was printed as 60.000
C19_Witness ==
    /\ codec_pc = "done"
    /\ codec_x > 360000 * Scale
    /\ codec_ts.fields[3].n = 60 * Scale
    /\ codec_out.ok

\* C21: while a loadable analysis record of the item is on disk, no step
\* starts a transcription or moves the analysis, and no step rewrites the
\* record; the cache check makes the record's list the remove list of the
\* item. So the record is written on a cache miss only.
C21_CacheHitIsFrame ==
    [][cache.kind = "record" =>
          /\ cache' = cache
          /\ UNCHANGED anVars
          /\ pc' \notin {"transcribe", "analysis"}
          /\ pc = "cache" => (segments_to_remove' = cache.segs /\ pc' = "lua")]_vars

\* the item's outputs are being generated from a cached record, with no
\* transcription and no analysis behind it
C21_Witness ==
    /\ pc = "done"
    /\ item_status = "success"
    /\ an_pc = "idle"
    /\ cache = CacheRecord(CurrentSchema, <<Seg("ad", Num(10), Num(30))>>)
    /\ segments_to_remove = cache.segs
    /\ lua_skips = <<<<10, 30>>>>

(***************************************************************************)
(* Claims about the batch loop (checked under SpecBatch).                  *)
(***************************************************************************)
\* how many of the started items ended the way `how`
Ended(how) == Cardinality({k \in 1..Len(attempted) : attempted[k].how = how})

\* C22: the batch loop starts the items one by one in list order, each
\* once; an item that raises adds one to fail_count, an item that returns
\* adds one to success_count, and the loop goes on, so that after the last
\* item the two counts add up to the number of items.
C22_BatchCountsEveryItem ==
    /\ item_idx <= Len(files_to_process)
    /\ Len(attempted) = item_idx
    /\ \A k \in 1..Len(attempted) : attempted[k].item = k
    /\ fail_count = Ended("raised")
    /\ success_count = Ended("returned")
    /\ pc = "batch" => success_count + fail_count = item_idx
    /\ (pc = "batch" /\ item_idx < Len(files_to_process)) => ENABLED BeginItem

\* the first item raised, the loop went on, the second returned, and the
\* batch is complete
C22_Witness ==
    /\ pc = "batch"
    /\ item_idx = Len(files_to_process)
    /\ Len(attempted) = 2
    /\ attempted[1].how = "raised"
    /\ attempted[2].how = "returned"
    /\ fail_count = 1
    /\ success_count = 1

(***************************************************************************)
(* Claims about the detector's responses and calls (checked under          *)
(* SpecAnalysis).                                                          *)
(***************************************************************************)
\* the step ends a chunk's detector call
ChunkEnds == Len(chunk_outcomes') = Len(chunk_outcomes) + 1

\* C23: when the response that ends a chunk's call, from either provider,
\* is a bare list, the chunk loop does not raise and adds exactly the
\* list's entries, in order, to the end of the accumulated remove list,
\* which is what an object holding the same list under segments_to_remove
\* adds.
C23_BareListIsSegmentsList ==
    [][(ChunkEnds /\ last_response'.shape = "list") =>
          /\ an_pc' # "raised"
          /\ all_remove_segments' = all_remove_segments \o last_response'.segs
          /\ chunk_i' = chunk_i + 1
          /\ ParseGemini(last_response') =
                ParseGemini([last_response' EXCEPT !.shape = "object"])
          /\ ParseOpenRouter(last_response') =
                ParseOpenRouter([last_response' EXCEPT !.shape = "object"])]_vars

\* the second chunk's call was answered with a bare list of one entry,
\* which is now the last entry of the remove list
C23_Witness ==
    /\ last_response.shape = "list"
    /\ Len(last_response.segs) = 1
    /\ Len(chunk_outcomes) = 2
    /\ all_remove_segments # <<>>
    /\ all_remove_segments[Len(all_remove_segments)] = last_response.segs[1]
    /\ segment_chunk[Len(segment_chunk)] = 2

\* C26: for one chunk the primary provider is called at most 5 times, its
\* models being taken in list order, and the alternate provider at most
\* once, and only when the primary models are exhausted or the 5 attempts
\* are spent; the call always has a next step until it returns, and the
\* chunk loop is left by an exception only after a value was returned.
C26_ChunkCallIsBounded ==
    /\ [](/\ calls.gemini <= 5
          /\ calls.openrouter <= 1
          /\ calls.openrouter = 1 =>
                (calls.gemini = 5 \/ current_model_idx >= Len(models_to_try))
          /\ an_pc = "gemini" => ENABLED GeminiAttempt
          /\ an_pc = "openrouter" => (calls.openrouter = 0 /\ ENABLED OpenRouterCall))
    /\ [][/\ model_name' # model_name =>
               \E k \in 1..(Len(models_to_try) - 1) :
                   model_name = models_to_try[k] /\ model_name' = models_to_try[k + 1]
          /\ an_pc' = "raised" => ChunkEnds
          /\ an_pc = "openrouter" => ChunkEnds]_vars

\* five attempts on the first model failed without a quota error, the
\* alternate provider was called once, and the chunk's call returned
C26_Witness ==
    /\ calls = [gemini |-> 5, openrouter |-> 1]
    /\ current_model_idx = 0
    /\ Len(chunk_outcomes) = 1
    /\ chunk_outcomes[1] = "answered"
    /\ an_pc \in {"gemini", "returned"}

\* the primary models left behind by a quota or safety error
Abandoned ==
    {models_to_try[k] : k \in 1..Min(current_model_idx, Len(models_to_try))}

\* C29: current_model_idx never decreases, no call of the primary provider
\* goes to a model abandoned earlier, in this chunk or a previous one, and
\* while current_model_idx is within the list the active model is the
\* list's entry at that index.
C29_AbandonedModelNeverReused ==
    /\ [](current_model_idx < Len(models_to_try) =>
             model_name = models_to_try[current_model_idx + 1])
    /\ [][/\ current_model_idx' >= current_model_idx
          /\ GeminiAttempt => model_name \notin Abandoned]_vars

====
